---------------------------- MODULE Spec2Model ----------------------------
(***************************************************************************)
(* transformer_example.ipynb: a notebook that loads the spaCy pipeline     *)
(* ja_core_news_trf, applies it to one Japanese sentence and then prints   *)
(* and renders the resulting Doc.  The code cells are executed top to      *)
(* bottom by one kernel.  The trained pipeline is an external library: its *)
(* result for the one sentence of the notebook is taken from the outputs   *)
(* stored in the notebook, its internal order from the notebook's text.    *)
(*                                                                         *)
(* Text is modelled as a sequence of Unicode code points, so that lengths, *)
(* offsets and concatenation are those of Python's str.                    *)
(***************************************************************************)
EXTENDS Integers, Sequences, FiniteSets, TLC

VARIABLES
  pc,     \* the statement the kernel executes next
  it,     \* position of the iterator of the running for loop (1-based)
  ns,     \* the kernel's namespace: the names bound so far and their values
  pdoc,   \* the Doc in flight inside nlp.__call__
  ran,    \* the steps of nlp.__call__ that have returned, in order
  calls,  \* the calls made to the library so far, in order
  out,    \* the outputs of the code cells so far, in order
  err     \* the exception that ended the run, or "none"

vars == <<pc, it, ns, pdoc, ran, calls, out, err>>

-----------------------------------------------------------------------------
(* The data of the notebook. *)

\* sentence = "Kabushikigaisha OpenAI wa Tokyo-to Shibuya-ku ni honsha wo
\* kamaete imasu." (28 characters, no white space)
SentenceText ==
  <<26666, 24335, 20250, 31038, 12458, 12540, 12503, 12531, 65, 73, 12399, 26481, 20140, 37117, 28171, 35895, 21306, 12395, 26412, 31038, 12434, 27083, 12360, 12390, 12356, 12414, 12377, 12290>>

\* The name given to spacy.load.
ModelName == "ja_core_news_trf"

\* The components of the pipeline, in the order the notebook lists them.
pipe_names ==
  <<"transformer", "morphologizer", "parser", "attribute_ruler", "ner">>

\* The 17 tokens of the Doc with the fields the loops of cells 3 and 7 print
\* for them (text, ent_iob_-ent_type_, tag_, pos_, dep_, morph; text, lemma_,
\* pos_, tag_, dep_, shape_, is_alpha, is_stop).
AnnotatedTokens ==
  <<
    [text |-> <<26666, 24335>>, lemma_ |-> <<26666, 24335>>,
     pos_ |-> "NOUN", tag_ |-> <<21517, 35422, 45, 26222, 36890, 21517, 35422, 45, 19968, 33324>>,
     dep_ |-> "compound", morph |-> <<82, 101, 97, 100, 105, 110, 103, 61, 12459, 12502, 12471, 12461>>,
     shape_ |-> <<120, 120>>, is_alpha |-> TRUE, is_stop |-> FALSE,
     ent_iob_ |-> "B", ent_type_ |-> "ORG"],
    [text |-> <<20250, 31038>>, lemma_ |-> <<20250, 31038>>,
     pos_ |-> "NOUN", tag_ |-> <<21517, 35422, 45, 26222, 36890, 21517, 35422, 45, 19968, 33324>>,
     dep_ |-> "compound", morph |-> <<82, 101, 97, 100, 105, 110, 103, 61, 12460, 12452, 12471, 12515>>,
     shape_ |-> <<120, 120>>, is_alpha |-> TRUE, is_stop |-> FALSE,
     ent_iob_ |-> "I", ent_type_ |-> "ORG"],
    [text |-> <<12458, 12540, 12503, 12531>>, lemma_ |-> <<12458, 12540, 12503, 12531>>,
     pos_ |-> "NOUN", tag_ |-> <<21517, 35422, 45, 26222, 36890, 21517, 35422, 45, 12469, 22793, 24418, 29366, 35422, 21487, 33021>>,
     dep_ |-> "compound", morph |-> <<82, 101, 97, 100, 105, 110, 103, 61, 12458, 12540, 12503, 12531>>,
     shape_ |-> <<120, 120, 120, 120>>, is_alpha |-> TRUE, is_stop |-> FALSE,
     ent_iob_ |-> "I", ent_type_ |-> "ORG"],
    [text |-> <<65, 73>>, lemma_ |-> <<65, 73>>,
     pos_ |-> "NOUN", tag_ |-> <<21517, 35422, 45, 26222, 36890, 21517, 35422, 45, 19968, 33324>>,
     dep_ |-> "nsubj", morph |-> <<82, 101, 97, 100, 105, 110, 103, 61, 12456, 12540, 12450, 12452>>,
     shape_ |-> <<88, 88>>, is_alpha |-> TRUE, is_stop |-> FALSE,
     ent_iob_ |-> "I", ent_type_ |-> "ORG"],
    [text |-> <<12399>>, lemma_ |-> <<12399>>,
     pos_ |-> "ADP", tag_ |-> <<21161, 35422, 45, 20418, 21161, 35422>>,
     dep_ |-> "case", morph |-> <<82, 101, 97, 100, 105, 110, 103, 61, 12495>>,
     shape_ |-> <<120>>, is_alpha |-> TRUE, is_stop |-> TRUE,
     ent_iob_ |-> "O", ent_type_ |-> ""],
    [text |-> <<26481, 20140>>, lemma_ |-> <<26481, 20140>>,
     pos_ |-> "PROPN", tag_ |-> <<21517, 35422, 45, 22266, 26377, 21517, 35422, 45, 22320, 21517, 45, 19968, 33324>>,
     dep_ |-> "compound", morph |-> <<82, 101, 97, 100, 105, 110, 103, 61, 12488, 12454, 12461, 12519, 12454>>,
     shape_ |-> <<120, 120>>, is_alpha |-> TRUE, is_stop |-> FALSE,
     ent_iob_ |-> "B", ent_type_ |-> "GPE"],
    [text |-> <<37117>>, lemma_ |-> <<37117>>,
     pos_ |-> "NOUN", tag_ |-> <<21517, 35422, 45, 26222, 36890, 21517, 35422, 45, 19968, 33324>>,
     dep_ |-> "nmod", morph |-> <<82, 101, 97, 100, 105, 110, 103, 61, 12488>>,
     shape_ |-> <<120>>, is_alpha |-> TRUE, is_stop |-> FALSE,
     ent_iob_ |-> "I", ent_type_ |-> "GPE"],
    [text |-> <<28171, 35895>>, lemma_ |-> <<28171, 35895>>,
     pos_ |-> "PROPN", tag_ |-> <<21517, 35422, 45, 22266, 26377, 21517, 35422, 45, 22320, 21517, 45, 19968, 33324>>,
     dep_ |-> "compound", morph |-> <<82, 101, 97, 100, 105, 110, 103, 61, 12471, 12502, 12516>>,
     shape_ |-> <<120, 120>>, is_alpha |-> TRUE, is_stop |-> FALSE,
     ent_iob_ |-> "I", ent_type_ |-> "GPE"],
    [text |-> <<21306>>, lemma_ |-> <<21306>>,
     pos_ |-> "NOUN", tag_ |-> <<25509, 23614, 36766, 45, 21517, 35422, 30340, 45, 19968, 33324>>,
     dep_ |-> "obl", morph |-> <<82, 101, 97, 100, 105, 110, 103, 61, 12463>>,
     shape_ |-> <<120>>, is_alpha |-> TRUE, is_stop |-> FALSE,
     ent_iob_ |-> "I", ent_type_ |-> "GPE"],
    [text |-> <<12395>>, lemma_ |-> <<12395>>,
     pos_ |-> "ADP", tag_ |-> <<21161, 35422, 45, 26684, 21161, 35422>>,
     dep_ |-> "case", morph |-> <<82, 101, 97, 100, 105, 110, 103, 61, 12491>>,
     shape_ |-> <<120>>, is_alpha |-> TRUE, is_stop |-> TRUE,
     ent_iob_ |-> "O", ent_type_ |-> ""],
    [text |-> <<26412, 31038>>, lemma_ |-> <<26412, 31038>>,
     pos_ |-> "NOUN", tag_ |-> <<21517, 35422, 45, 26222, 36890, 21517, 35422, 45, 19968, 33324>>,
     dep_ |-> "obj", morph |-> <<82, 101, 97, 100, 105, 110, 103, 61, 12507, 12531, 12471, 12515>>,
     shape_ |-> <<120, 120>>, is_alpha |-> TRUE, is_stop |-> FALSE,
     ent_iob_ |-> "O", ent_type_ |-> ""],
    [text |-> <<12434>>, lemma_ |-> <<12434>>,
     pos_ |-> "ADP", tag_ |-> <<21161, 35422, 45, 26684, 21161, 35422>>,
     dep_ |-> "case", morph |-> <<82, 101, 97, 100, 105, 110, 103, 61, 12530>>,
     shape_ |-> <<120>>, is_alpha |-> TRUE, is_stop |-> TRUE,
     ent_iob_ |-> "O", ent_type_ |-> ""],
    [text |-> <<27083, 12360>>, lemma_ |-> <<27083, 12360, 12427>>,
     pos_ |-> "VERB", tag_ |-> <<21205, 35422, 45, 19968, 33324>>,
     dep_ |-> "ROOT", morph |-> <<73, 110, 102, 108, 101, 99, 116, 105, 111, 110, 61, 19979, 19968, 27573, 45, 12450, 34892, 59, 36899, 29992, 24418, 45, 19968, 33324, 124, 82, 101, 97, 100, 105, 110, 103, 61, 12459, 12510, 12456>>,
     shape_ |-> <<120, 120>>, is_alpha |-> TRUE, is_stop |-> FALSE,
     ent_iob_ |-> "O", ent_type_ |-> ""],
    [text |-> <<12390>>, lemma_ |-> <<12390>>,
     pos_ |-> "SCONJ", tag_ |-> <<21161, 35422, 45, 25509, 32154, 21161, 35422>>,
     dep_ |-> "mark", morph |-> <<82, 101, 97, 100, 105, 110, 103, 61, 12486>>,
     shape_ |-> <<120>>, is_alpha |-> TRUE, is_stop |-> TRUE,
     ent_iob_ |-> "O", ent_type_ |-> ""],
    [text |-> <<12356>>, lemma_ |-> <<12356, 12427>>,
     pos_ |-> "VERB", tag_ |-> <<21205, 35422, 45, 38750, 33258, 31435, 21487, 33021>>,
     dep_ |-> "fixed", morph |-> <<73, 110, 102, 108, 101, 99, 116, 105, 111, 110, 61, 19978, 19968, 27573, 45, 12450, 34892, 59, 36899, 29992, 24418, 45, 19968, 33324, 124, 82, 101, 97, 100, 105, 110, 103, 61, 12452>>,
     shape_ |-> <<120>>, is_alpha |-> TRUE, is_stop |-> TRUE,
     ent_iob_ |-> "O", ent_type_ |-> ""],
    [text |-> <<12414, 12377>>, lemma_ |-> <<12414, 12377>>,
     pos_ |-> "AUX", tag_ |-> <<21161, 21205, 35422>>,
     dep_ |-> "aux", morph |-> <<73, 110, 102, 108, 101, 99, 116, 105, 111, 110, 61, 21161, 21205, 35422, 45, 12510, 12473, 59, 32066, 27490, 24418, 45, 19968, 33324, 124, 82, 101, 97, 100, 105, 110, 103, 61, 12510, 12473>>,
     shape_ |-> <<120, 120>>, is_alpha |-> TRUE, is_stop |-> TRUE,
     ent_iob_ |-> "O", ent_type_ |-> ""],
    [text |-> <<12290>>, lemma_ |-> <<12290>>,
     pos_ |-> "PUNCT", tag_ |-> <<35036, 21161, 35352, 21495, 45, 21477, 28857>>,
     dep_ |-> "punct", morph |-> <<82, 101, 97, 100, 105, 110, 103, 61, 12290>>,
     shape_ |-> <<12290>>, is_alpha |-> FALSE, is_stop |-> FALSE,
     ent_iob_ |-> "O", ent_type_ |-> ""]
  >>

\* doc.ents as the loop of cell 11 prints it: text, start_char, end_char,
\* label_.
AnnotatedEnts ==
  <<
    [text |-> <<26666, 24335, 20250, 31038, 12458, 12540, 12503, 12531, 65, 73>>,
     start_char |-> 0, end_char |-> 10, label_ |-> "ORG"],
    [text |-> <<26481, 20140, 37117, 28171, 35895, 21306>>,
     start_char |-> 11, end_char |-> 17, label_ |-> "GPE"]
  >>

\* The options of cell 9; the colour and the font are text.
OptionsValue ==
  [compact |-> TRUE, bg |-> "#09a3d5", color |-> "white",
   font |-> "Source Sans Pro"]

-----------------------------------------------------------------------------
(* The library, as far as the notebook shows it. *)

\* A Doc: the original text, the tokens and the entity spans.
EmptyDoc == [text |-> <<>>, tokens |-> <<>>, ents |-> <<>>]

\* Mutant of make_doc: the tokenizer drops the punctuation that ends the
\* sentence.
make_doc_drops_punct(s) ==
  [text   |-> s,
   tokens |-> [i \in 1..(Len(AnnotatedTokens) - 1) |->
                 [AnnotatedTokens[i] EXCEPT !.pos_ = "", !.tag_ = <<>>,
                                            !.morph = <<>>, !.dep_ = "",
                                            !.ent_iob_ = "",
                                            !.ent_type_ = ""]],
   ents   |-> <<>>]

\* "spaCy pipelines first tokenize input text": the Doc the tokenizer makes
\* holds the text and the tokens with their lexical fields; nothing is
\* tagged, parsed or recognised yet.  The pipeline lists no lemmatizer: the
\* lemma comes with the token.  The tokenizer is part of the library: the
\* tokens are the 17 the notebook shows for its sentence.
make_doc(s) ==
  [text   |-> s,
   tokens |-> [i \in 1..Len(AnnotatedTokens) |->
                 [AnnotatedTokens[i] EXCEPT !.pos_ = "", !.tag_ = <<>>,
                                            !.morph = <<>>, !.dep_ = "",
                                            !.ent_iob_ = "",
                                            !.ent_type_ = ""]],
   ents   |-> <<>>]

\* Mutant of morphologizer: tokens that are not alphabetic are left
\* untagged.
morphologizer_alpha_only(d) ==
  [d EXCEPT !.tokens =
     [i \in 1..Len(d.tokens) |->
        IF d.tokens[i].is_alpha
        THEN [d.tokens[i] EXCEPT !.pos_ = AnnotatedTokens[i].pos_,
                                 !.tag_ = AnnotatedTokens[i].tag_,
                                 !.morph = AnnotatedTokens[i].morph]
        ELSE d.tokens[i]]]

\* Part of speech tagging: POS, the detailed tag and the morphology of each
\* token.
morphologizer(d) ==
  [d EXCEPT !.tokens =
     [i \in 1..Len(d.tokens) |->
        [d.tokens[i] EXCEPT !.pos_ = AnnotatedTokens[i].pos_,
                            !.tag_ = AnnotatedTokens[i].tag_,
                            !.morph = AnnotatedTokens[i].morph]]]

\* The syntactic dependency of each token.
parser(d) ==
  [d EXCEPT !.tokens =
     [i \in 1..Len(d.tokens) |->
        [d.tokens[i] EXCEPT !.dep_ = AnnotatedTokens[i].dep_]]]

\* Mutant of ner: the first token of an entity is tagged I like the ones
\* after it.
ner_starts_inside(d) ==
  [d EXCEPT !.tokens =
     [i \in 1..Len(d.tokens) |->
        [d.tokens[i] EXCEPT
           !.ent_iob_ = IF AnnotatedTokens[i].ent_iob_ = "B"
                        THEN "I" ELSE AnnotatedTokens[i].ent_iob_,
           !.ent_type_ = AnnotatedTokens[i].ent_type_]],
            !.ents = AnnotatedEnts]

\* Mutant of ner: the tokens are tagged, but the last span is not stored in
\* ents.
ner_drops_span(d) ==
  [d EXCEPT !.tokens =
     [i \in 1..Len(d.tokens) |->
        [d.tokens[i] EXCEPT !.ent_iob_ = AnnotatedTokens[i].ent_iob_,
                            !.ent_type_ = AnnotatedTokens[i].ent_type_]],
            !.ents = SubSeq(AnnotatedEnts, 1, Len(AnnotatedEnts) - 1)]

\* Named entities "are analyzed and stored in the ents property of doc", and
\* each token carries its IOB tag and entity type.
ner(d) ==
  [d EXCEPT !.tokens =
     [i \in 1..Len(d.tokens) |->
        [d.tokens[i] EXCEPT !.ent_iob_ = AnnotatedTokens[i].ent_iob_,
                            !.ent_type_ = AnnotatedTokens[i].ent_type_]],
            !.ents = AnnotatedEnts]

\* "Each pipeline component returns the processed Doc, which is then passed
\* on to the next component."  The transformer and the attribute ruler leave
\* the fields the notebook prints as they are.
Component(name, d) ==
  CASE name = "morphologizer" -> morphologizer(d)
    [] name = "parser"        -> parser(d)
    [] name = "ner"           -> ner(d)
    [] OTHER                  -> d

\* displacy with style "dep": the words and the arcs are parsed from a copy
\* of the Doc in which punctuation is merged onto the word before it (the
\* stored output shows 16 words, the last one "masu" with the full stop, and
\* 15 arcs); a word is shown with its coarse POS, an arc with the dependency
\* label of every word that is not the root.
RECURSIVE collapse_punct(_)
collapse_punct(ws) ==
  IF Len(ws) <= 1 THEN ws
  ELSE LET front == collapse_punct(SubSeq(ws, 1, Len(ws) - 1))
           last  == ws[Len(ws)]
       IN  IF last.pos_ = "PUNCT" /\ front[Len(front)].pos_ # "PUNCT"
           THEN [front EXCEPT ![Len(front)] =
                   [@ EXCEPT !.text = @ \o last.text]]
           ELSE Append(front, last)

RECURSIVE dep_arcs(_)
dep_arcs(ws) ==
  IF ws = <<>> THEN <<>>
  ELSE IF ws[1].dep_ = "ROOT" THEN dep_arcs(Tail(ws))
       ELSE <<ws[1].dep_>> \o dep_arcs(Tail(ws))

render_dep(d, opts) ==
  LET ws == collapse_punct(d.tokens)
  IN  [style |-> "dep",
       words |-> [i \in 1..Len(ws) |-> [text |-> ws[i].text, tag |-> ws[i].pos_]],
       arcs  |-> dep_arcs(ws),
       bg    |-> opts.bg, color |-> opts.color, font |-> opts.font]

\* displacy with style "ent": the text of the Doc cut at the character
\* offsets of its entity spans; a span is marked with its label, the text
\* between spans is shown as it is.
RECURSIVE ent_segments(_, _, _)
ent_segments(text, ents, offset) ==
  IF ents = <<>>
  THEN IF offset < Len(text)
       THEN <<[text |-> SubSeq(text, offset + 1, Len(text)), label |-> ""]>>
       ELSE <<>>
  ELSE LET e == ents[1]
           before == IF offset < e.start_char
                     THEN <<[text |-> SubSeq(text, offset + 1, e.start_char),
                             label |-> ""]>>
                     ELSE <<>>
       IN  before
           \o <<[text |-> SubSeq(text, e.start_char + 1, e.end_char),
                 label |-> e.label_]>>
           \o ent_segments(text, Tail(ents), e.end_char)

render_ent(d, opts) ==
  [style |-> "ent", segments |-> ent_segments(d.text, d.ents, 0)]

\* What print writes for one token or one span: the fields in the order of
\* the call; the f-string joins the IOB tag and the entity type with "-".
Line3(t) ==
  <<t.text, t.ent_iob_ \o "-" \o t.ent_type_, t.tag_, t.pos_, t.dep_, t.morph>>

Line5(t) == <<t.text>>

Line7(t) ==
  <<t.text, t.lemma_, t.pos_, t.tag_, t.dep_, t.shape_, t.is_alpha, t.is_stop>>

\* Mutant of Line11: the two offsets are printed in the wrong order.
Line11Swapped(e) == <<e.text, e.end_char, e.start_char, e.label_>>

Line11(e) == <<e.text, e.start_char, e.end_char, e.label_>>

Line13(t) == <<t.text, t.ent_iob_ \o "-" \o t.ent_type_>>

Header7 == <<"TEXT\tLEMMA\tPOS\tTAG\tDEP\tSHAPE\tALPHA\tSTOP">>

-----------------------------------------------------------------------------
(* The kernel. *)

Bound(n) == n \in DOMAIN ns

\* ns after the assignment n = v.
Assign(n, v) == [m \in DOMAIN ns \cup {n} |-> IF m = n THEN v ELSE ns[m]]

Stdout(cell, line) == [cell |-> cell, kind |-> "stdout", data |-> line]

Display(cell, html) == [cell |-> cell, kind |-> "display", data |-> html]

\* Mutant of Raise: the exception is caught and the failing statement is
\* tried again.
RaiseAndRetry(e) ==
  /\ err' = e
  /\ UNCHANGED <<pc, it, ns, pdoc, ran, out>>

\* An exception nobody catches: the run ends, nothing else changes.
Raise(e) ==
  /\ pc' = "failed"
  /\ err' = e
  /\ UNCHANGED <<it, ns, pdoc, ran, out>>

Init ==
  /\ pc = "import"
  /\ it = 1
  /\ ns = [n \in {} |-> 0]
  /\ pdoc = EmptyDoc
  /\ ran = <<>>
  /\ calls = <<>>
  /\ out = <<>>
  /\ err = "none"

-----------------------------------------------------------------------------
(* Cell 1: load the pipeline and analyse the sentence. *)

\* import spacy; from spacy import displacy
Import ==
  /\ pc = "import"
  /\ ns' = [n \in {"spacy", "displacy"} |-> "module"]
  /\ pc' = "load"
  /\ UNCHANGED <<it, pdoc, ran, calls, out, err>>

\* nlp = spacy.load("ja_core_news_trf"): the pipeline with its components,
\* or an exception when the model cannot be loaded.
Load ==
  /\ pc = "load"
  /\ calls' = Append(calls, [fn |-> "spacy.load", name |-> ModelName])
  /\ \/ /\ ns' = Assign("nlp", [name |-> ModelName, pipe_names |-> pipe_names])
        /\ pc' = "sentence"
        /\ UNCHANGED <<it, pdoc, ran, out, err>>
     \/ Raise("spacy.load")

\* sentence = "..."
AssignSentence ==
  /\ pc = "sentence"
  /\ ns' = Assign("sentence", SentenceText)
  /\ pc' = "call"
  /\ UNCHANGED <<it, pdoc, ran, calls, out, err>>

\* doc = nlp(sentence), entered: the text is tokenized first.
CallNlp ==
  /\ pc = "call"
  /\ calls' = Append(calls, [fn |-> "nlp", text |-> ns["sentence"]])
  /\ \/ /\ pdoc' = make_doc(ns["sentence"])
        /\ ran' = <<"tokenizer">>
        /\ pc' = "pipe"
        /\ UNCHANGED <<it, ns, out, err>>
     \/ Raise("tokenizer")

\* Mutant of NextComponent: the pipeline is walked from its end.
NextComponentReversed ==
  ns["nlp"].pipe_names[Len(ns["nlp"].pipe_names) + 1 - Len(ran)]

\* The component that runs next: the components follow the tokenizer in the
\* order of the pipeline.
NextComponent == ns["nlp"].pipe_names[Len(ran)]

\* One component takes the Doc of the step before it and returns the
\* processed Doc, or raises.
PipeStep ==
  /\ pc = "pipe"
  /\ Len(ran) <= Len(ns["nlp"].pipe_names)
  /\ \/ /\ pdoc' = Component(NextComponent, pdoc)
        /\ ran' = Append(ran, NextComponent)
        /\ UNCHANGED <<pc, it, ns, calls, out, err>>
     \/ /\ Raise(NextComponent)
        /\ UNCHANGED calls

\* doc = nlp(sentence), returned: the Doc of the last component is bound.
ReturnDoc ==
  /\ pc = "pipe"
  /\ Len(ran) = Len(ns["nlp"].pipe_names) + 1
  /\ ns' = Assign("doc", pdoc)
  /\ pc' = "cell3"
  /\ UNCHANGED <<it, pdoc, ran, calls, out, err>>

-----------------------------------------------------------------------------
(* The for loops.  The statement "for x in xs" asks the iterator for the   *)
(* next item and binds it to x, or leaves the loop when there is none; the *)
(* body prints one line.                                                   *)

\* Mutant of ForNext: the Doc hands out one single-pass iterator, so a loop
\* that finds it exhausted leaves it exhausted for the loops after it.
ForNextSinglePass(head, body, xs, x, next) ==
  /\ pc = head
  /\ IF it <= Len(xs)
     THEN /\ ns' = Assign(x, xs[it])
          /\ it' = it + 1
          /\ pc' = body
     ELSE /\ ns' = ns
          /\ it' = it
          /\ pc' = next
  /\ UNCHANGED <<pdoc, ran, calls, out, err>>

\* Mutant of ForNext: the loop stops one item early.
ForNextShort(head, body, xs, x, next) ==
  /\ pc = head
  /\ IF it < Len(xs)
     THEN /\ ns' = Assign(x, xs[it])
          /\ it' = it + 1
          /\ pc' = body
     ELSE /\ ns' = ns
          /\ it' = 1
          /\ pc' = next
  /\ UNCHANGED <<pdoc, ran, calls, out, err>>

ForNext(head, body, xs, x, next) ==
  /\ pc = head
  /\ IF it <= Len(xs)
     THEN /\ ns' = Assign(x, xs[it])
          /\ it' = it + 1
          /\ pc' = body
     ELSE /\ ns' = ns
          /\ it' = 1
          /\ pc' = next
  /\ UNCHANGED <<pdoc, ran, calls, out, err>>

PrintLine(body, head, cell, line) ==
  /\ pc = body
  /\ out' = Append(out, Stdout(cell, line))
  /\ pc' = head
  /\ UNCHANGED <<it, ns, pdoc, ran, calls, err>>

\* Cell 3: for token in doc: print(text, iob-type, tag_, pos_, dep_, morph)
Cell3Next == ForNext("cell3", "cell3_print", ns["doc"].tokens, "token", "cell5")

Cell3Print == PrintLine("cell3_print", "cell3", 3, Line3(ns["token"]))

\* Mutant of Cell5Next: the loop iterates nlp(sentence) instead of doc.
Cell5NextCallsNlp ==
  /\ pc = "cell5"
  /\ calls' = IF it = 1
              THEN Append(calls, [fn |-> "nlp", text |-> ns["sentence"]])
              ELSE calls
  /\ IF it <= Len(pdoc.tokens)
     THEN /\ ns' = Assign("token", pdoc.tokens[it])
          /\ it' = it + 1
          /\ pc' = "cell5_print"
     ELSE /\ ns' = ns
          /\ it' = 1
          /\ pc' = "cell7"
  /\ UNCHANGED <<pdoc, ran, out, err>>

\* Cell 5: for token in doc: print(token.text)
Cell5Next == ForNext("cell5", "cell5_print", ns["doc"].tokens, "token", "cell7")

Cell5Print == PrintLine("cell5_print", "cell5", 5, Line5(ns["token"]))

\* Cell 7: print the header, then one row per token.
Cell7Header == PrintLine("cell7", "cell7_for", 7, Header7)

Cell7Next ==
  ForNext("cell7_for", "cell7_print", ns["doc"].tokens, "token", "cell9")

Cell7Print == PrintLine("cell7_print", "cell7_for", 7, Line7(ns["token"]))

\* Cell 11: for ent in doc.ents: print(text, start_char, end_char, label_)
Cell11Next == ForNext("cell11", "cell11_print", ns["doc"].ents, "ent", "cell13")

Cell11Print == PrintLine("cell11_print", "cell11", 11, Line11(ns["ent"]))

\* Cell 13: for token in doc: print(token.text, iob-type)
Cell13Next ==
  ForNext("cell13", "cell13_print", ns["doc"].tokens, "token", "cell15")

Cell13Print == PrintLine("cell13_print", "cell13", 13, Line13(ns["token"]))

-----------------------------------------------------------------------------
(* The renderings. *)

\* Cell 9: options = {...}
AssignOptions ==
  /\ pc = "cell9"
  /\ ns' = Assign("options", OptionsValue)
  /\ pc' = "cell9_render"
  /\ UNCHANGED <<it, pdoc, ran, calls, out, err>>

Render(at, next, cell, style, html) ==
  /\ pc = at
  /\ calls' = Append(calls, [fn |-> "displacy.render", doc |-> ns["doc"],
                             style |-> style, options |-> ns["options"]])
  /\ out' = Append(out, Display(cell, html))
  /\ pc' = next
  /\ UNCHANGED <<it, ns, pdoc, ran, err>>

\* Mutant of RenderDep: punctuation is merged in the Doc itself, not in a
\* copy of it.
RenderDepInPlace ==
  /\ pc = "cell9_render"
  /\ calls' = Append(calls, [fn |-> "displacy.render", doc |-> ns["doc"],
                             style |-> "dep", options |-> ns["options"]])
  /\ out' = Append(out, Display(9, render_dep(ns["doc"], ns["options"])))
  /\ ns' = Assign("doc", [ns["doc"] EXCEPT !.tokens = collapse_punct(@)])
  /\ pc' = "cell11"
  /\ UNCHANGED <<it, pdoc, ran, err>>

\* Mutant of RenderDep: the request returns at once and the diagram is not
\* displayed by the time the next cell runs.
RenderDepAsync ==
  /\ pc = "cell9_render"
  /\ calls' = Append(calls, [fn |-> "displacy.render", doc |-> ns["doc"],
                             style |-> "dep", options |-> ns["options"]])
  /\ pc' = "cell11"
  /\ UNCHANGED <<it, ns, out, pdoc, ran, err>>

\* Cell 9: displacy.render(doc, style="dep", options=options)
RenderDep ==
  Render("cell9_render", "cell11", 9, "dep", render_dep(ns["doc"], ns["options"]))

\* Mutant of RenderEnt: the options are rebuilt for the second request,
\* without the compact mode.
RenderEntOtherOptions ==
  /\ pc = "cell15"
  /\ calls' = Append(calls, [fn |-> "displacy.render", doc |-> ns["doc"],
                             style |-> "ent",
                             options |-> [OptionsValue EXCEPT !.compact = FALSE]])
  /\ out' = Append(out, Display(15, render_ent(ns["doc"], ns["options"])))
  /\ pc' = "done"
  /\ UNCHANGED <<it, ns, pdoc, ran, err>>

\* Cell 15: displacy.render(doc, style="ent", options=options)
RenderEnt ==
  Render("cell15", "done", 15, "ent", render_ent(ns["doc"], ns["options"]))

-----------------------------------------------------------------------------

Next ==
  \/ Import
  \/ Load
  \/ AssignSentence
  \/ CallNlp
  \/ PipeStep
  \/ ReturnDoc
  \/ Cell3Next
  \/ Cell3Print
  \/ Cell5Next
  \/ Cell5Print
  \/ Cell7Header
  \/ Cell7Next
  \/ Cell7Print
  \/ AssignOptions
  \/ RenderDep
  \/ Cell11Next
  \/ Cell11Print
  \/ Cell13Next
  \/ Cell13Print
  \/ RenderEnt

Spec == Init /\ [][Next]_vars

-----------------------------------------------------------------------------
(* Notions the claims use. *)

\* The code cell a statement belongs to (17: past the last cell).
CellOf(l) ==
  CASE l \in {"import", "load", "sentence", "call", "pipe", "failed"} -> 1
    [] l \in {"cell3", "cell3_print"} -> 3
    [] l \in {"cell5", "cell5_print"} -> 5
    [] l \in {"cell7", "cell7_for", "cell7_print"} -> 7
    [] l \in {"cell9", "cell9_render"} -> 9
    [] l \in {"cell11", "cell11_print"} -> 11
    [] l \in {"cell13", "cell13_print"} -> 13
    [] l = "cell15" -> 15
    [] l = "done" -> 17

\* The lines cell c has printed, and the renderings requested, in order.
CellLines(c) == SelectSeq(out, LAMBDA e : e.cell = c /\ e.kind = "stdout")

Renders == SelectSeq(calls, LAMBDA c : c.fn = "displacy.render")

Invocations == SelectSeq(calls, LAMBDA c : c.fn = "nlp")

\* The line a token loop prints for token t.
TokenLine(c, t) ==
  CASE c = 3 -> Line3(t) [] c = 5 -> Line5(t) [] c = 7 -> Line7(t)
    [] c = 13 -> Line13(t)

\* The rows of a token loop: cell 7 prints its header first.
TokenRows(c) ==
  IF c = 7 THEN SubSeq(CellLines(7), 2, Len(CellLines(7))) ELSE CellLines(c)

TokenCells == {3, 5, 7, 13}

-----------------------------------------------------------------------------
C2_FailureIsFatal ==
  /\ [](err # "none" =>
          /\ pc = "failed"
          /\ out = <<>>
          /\ Renders = <<>>
          /\ ~Bound("doc")
          /\ Len(Invocations) <= 1
          /\ Len(SelectSeq(calls, LAMBDA c : c.fn = "spacy.load")) = 1)
  /\ [][err # "none" => UNCHANGED vars]_vars

C2_Witness ==
  /\ err = "ner"
  /\ pc = "failed"
  /\ Len(Invocations) = 1
  /\ out = <<>>

LoopCells == TokenCells \cup {11}

\* The statements a running loop cell still executes before it is left: two
\* per item the iterator has not yielded yet, the one that finds the
\* iterator exhausted, and the statement of the cell that is pending.
StepsLeft ==
  LET xs == IF CellOf(pc) = 11 THEN ns["doc"].ents ELSE ns["doc"].tokens
  IN  2 * (Len(xs) + 1 - it)
        + (IF pc \in {"cell3", "cell5", "cell7_for", "cell11", "cell13"}
           THEN 1 ELSE 2)

(* C3: every loop over the tokens of the Doc is finite and single-pass:    *)
(* it prints one line per token, for each token once and in document       *)
(* order, and then ends; the loop over the entity spans prints one line    *)
(* per span and ends.                                                      *)
C3_LoopsSinglePass ==
  /\ [](Bound("doc") =>
          /\ \A c \in TokenCells :
               /\ Len(TokenRows(c)) <= Len(ns["doc"].tokens)
               /\ \A k \in 1..Len(TokenRows(c)) :
                    TokenRows(c)[k].data = TokenLine(c, ns["doc"].tokens[k])
               /\ CellOf(pc) > c => Len(TokenRows(c)) = Len(ns["doc"].tokens)
          /\ Len(CellLines(11)) <= Len(ns["doc"].ents)
          /\ \A k \in 1..Len(CellLines(11)) :
               CellLines(11)[k].data = Line11(ns["doc"].ents[k])
          /\ CellOf(pc) > 11 => Len(CellLines(11)) = Len(ns["doc"].ents))
  /\ [](CellOf(pc) \in LoopCells => StepsLeft >= 1 /\ ENABLED Next)
  /\ [][CellOf(pc) \in LoopCells /\ CellOf(pc') = CellOf(pc)
          => StepsLeft' < StepsLeft]_vars

C3_Witness ==
  /\ pc = "done"
  /\ \A c \in TokenCells : Len(TokenRows(c)) = 17
  /\ Len(CellLines(11)) = 2

-----------------------------------------------------------------------------
(* Notions of the claims about the Doc. *)

\* The text of tokens a..b, joined.
RECURSIVE JoinText(_, _, _)
JoinText(toks, a, b) ==
  IF a > b THEN <<>> ELSE toks[a].text \o JoinText(toks, a + 1, b)

\* The character offset at which token i starts (the text has no white
\* space between tokens).
TokenStart(toks, i) == Len(JoinText(toks, 1, i - 1))

\* The last token of the maximal run that starts at token i and goes on
\* with tokens tagged I of the same entity type.
RECURSIVE RunEnd(_, _)
RunEnd(toks, i) ==
  IF /\ i < Len(toks)
     /\ toks[i + 1].ent_iob_ = "I"
     /\ toks[i + 1].ent_type_ = toks[i].ent_type_
  THEN RunEnd(toks, i + 1)
  ELSE i

\* The tokens tagged B.
Begins(toks) == {i \in 1..Len(toks) : toks[i].ent_iob_ = "B"}

\* Token i lies inside span e.
Inside(toks, i, e) ==
  /\ e.start_char <= TokenStart(toks, i)
  /\ TokenStart(toks, i + 1) <= e.end_char

(* C4: the entity spans of doc.ents are derived from contiguous token      *)
(* entity tags: the k-th span is the maximal run of consecutive tokens     *)
(* that starts at the k-th token tagged B and goes on with tokens tagged I *)
(* of the same type; its label is that type, its text the joined text of   *)
(* those tokens; there are as many spans as tokens tagged B; and a token   *)
(* is tagged B or I exactly if it lies inside some span.                   *)
C4_EntsFromTags ==
  Bound("doc") =>
    LET toks == ns["doc"].tokens
        ents == ns["doc"].ents
    IN  /\ Len(ents) = Cardinality(Begins(toks))
        /\ \A k \in 1..Len(ents) :
             \E i \in Begins(toks) :
               /\ Cardinality({j \in Begins(toks) : j <= i}) = k
               /\ ents[k].label_ = toks[i].ent_type_
               /\ ents[k].text = JoinText(toks, i, RunEnd(toks, i))
               /\ ents[k].start_char = TokenStart(toks, i)
               /\ ents[k].end_char = TokenStart(toks, RunEnd(toks, i) + 1)
        /\ \A i \in 1..Len(toks) :
             toks[i].ent_iob_ \in {"B", "I"}
               <=> \E k \in 1..Len(ents) : Inside(toks, i, ents[k])

C4_Witness ==
  /\ Bound("doc")
  /\ Len(ns["doc"].ents) = 2
  /\ Cardinality(Begins(ns["doc"].tokens)) = 2
  /\ RunEnd(ns["doc"].tokens, 1) = 4
  /\ Len(CellLines(11)) = 2

(* C5: the Doc is read-only for the notebook: no print loop and no         *)
(* rendering changes the Doc, the fields of its tokens, its entity spans   *)
(* or the sentence, so after any prefix of the display steps the Doc is    *)
(* the one the pipeline returned.                                          *)
C5_DocReadOnly ==
  Bound("doc") =>
    /\ ns["doc"] = pdoc
    /\ ns["doc"] = ner(parser(morphologizer(make_doc(SentenceText))))
    /\ ns["doc"].text = SentenceText
    /\ ns["sentence"] = SentenceText

C5_Witness ==
  /\ pc = "done"
  /\ Len(Renders) = 2
  /\ Len(out) > Len(ns["doc"].tokens)
  /\ ns["doc"] = pdoc

\* The Doc after the components named in names, in that order.
RECURSIVE ApplyAll(_, _)
ApplyAll(names, d) ==
  IF names = <<>> THEN d ELSE ApplyAll(Tail(names), Component(names[1], d))

(* C6: inside the invoked pipeline the text is tokenized first and then    *)
(* transformer, morphologizer, parser, attribute_ruler and ner run in that *)
(* order, each on the Doc the one before it returned; no component runs    *)
(* before the tokenizer or before its predecessor has returned.            *)
C6_PipelineOrder ==
  /\ Len(ran) <= 6
  /\ ran = SubSeq(<<"tokenizer", "transformer", "morphologizer", "parser",
                    "attribute_ruler", "ner">>, 1, Len(ran))
  /\ ran = <<>> => pdoc = EmptyDoc
  /\ ran # <<>> => pdoc = ApplyAll(Tail(ran), make_doc(SentenceText))
  /\ Bound("doc") => Len(ran) = 6

C6_Witness ==
  /\ Bound("doc")
  /\ Len(ran) = 6
  /\ ran[6] = "ner"
  /\ pdoc.ents # <<>>

(* C7: the run requests exactly two renderings, first the dependency       *)
(* relations and later the entity spans, both of the same Doc and both     *)
(* with the same options; the options are assigned before the first        *)
(* request and are the same at both requests.                              *)
C7_TwoRenderings ==
  /\ Len(Renders) <= 2
  /\ \A i \in 1..Len(Renders) :
       /\ Renders[i].style = <<"dep", "ent">>[i]
       /\ Bound("options") /\ Bound("doc")
       /\ Renders[i].doc = ns["doc"]
       /\ Renders[i].options = ns["options"]
       /\ Renders[i].options = Renders[1].options
  /\ Bound("options") => ns["options"] = OptionsValue
  /\ pc = "done" => Len(Renders) = 2
  /\ Len(SelectSeq(out, LAMBDA e : e.kind = "display")) = Len(Renders)

C7_Witness ==
  /\ pc = "done"
  /\ Len(Renders) = 2
  /\ Renders[1].style = "dep"
  /\ Renders[2].style = "ent"
  /\ Renders[1].options = Renders[2].options

\* What cell c writes when it runs to its end.
ExpectedOut(c) ==
  CASE c \in {3, 5, 13} -> Len(ns["doc"].tokens)
    [] c = 7 -> Len(ns["doc"].tokens) + 1
    [] c = 11 -> Len(ns["doc"].ents)
    [] c \in {9, 15} -> 1

CountOut(c) == Len(SelectSeq(out, LAMBDA e : e.cell = c))

DisplayCells == {3, 5, 7, 9, 11, 13, 15}

(* C8: execution is single-threaded and synchronous: at most one step is   *)
(* in progress, a step starts only after the one before it has finished,   *)
(* and the effects of two steps never interleave: every output is written  *)
(* by the cell that is running, after the complete output of every earlier *)
(* cell.                                                                   *)
C8_OneStepAtATime ==
  /\ [](/\ \A i \in 1..Len(out) : out[i].cell <= CellOf(pc)
        /\ \A i \in 1..Len(out) : \A j \in i..Len(out) :
             out[i].cell <= out[j].cell
        /\ Bound("doc") =>
             /\ \A c \in DisplayCells :
                  c < CellOf(pc) => CountOut(c) = ExpectedOut(c)
             /\ Cardinality({c \in DisplayCells :
                               /\ CountOut(c) > 0
                               /\ CountOut(c) < ExpectedOut(c)}) <= 1
        /\ pc # "pipe" => (ran = <<>> \/ Len(ran) = 6 \/ pc = "failed"))
  /\ [][out' # out =>
          /\ Len(out') = Len(out) + 1
          /\ SubSeq(out', 1, Len(out)) = out
          /\ out'[Len(out')].cell = CellOf(pc)]_vars

C8_Witness ==
  /\ pc = "cell11_print"
  /\ CountOut(11) = 0
  /\ CountOut(9) = 1
  /\ CountOut(7) = 18

(* C9: for every entity span printed, the character offsets agree with the *)
(* covered text: start_char < end_char, end_char - start_char is the       *)
(* length of the text, the characters of the sentence from start_char up   *)
(* to end_char are the text, and the spans are printed in increasing       *)
(* offset order without overlap.                                           *)
C9_OffsetsConsistent ==
  \A k \in 1..Len(CellLines(11)) :
    LET l == CellLines(11)[k].data
    IN  /\ 0 <= l[2]
        /\ l[2] < l[3]
        /\ l[3] <= Len(ns["sentence"])
        /\ l[3] - l[2] = Len(l[1])
        /\ SubSeq(ns["sentence"], l[2] + 1, l[3]) = l[1]
        /\ k > 1 => CellLines(11)[k - 1].data[3] <= l[2]

C9_Witness ==
  /\ Len(CellLines(11)) = 2
  /\ CellLines(11)[2].data[2] = 11
  /\ CellLines(11)[2].data[3] = 17

\* A component has run in this invocation.
HasRun(name) == \E i \in 1..Len(ran) : ran[i] = name

Tagged(t) == t.pos_ # "" /\ t.tag_ # <<>>

(* C10: after tokenization, once the tagging component has run, every      *)
(* token of the Doc carries a coarse POS and a fine-grained tag, both not  *)
(* empty; a token is without them only if the tagging component has not    *)
(* run on the Doc.                                                         *)
C10_TokensTagged ==
  /\ ran # <<>> => Len(pdoc.tokens) > 0
  /\ HasRun("morphologizer") =>
       \A i \in 1..Len(pdoc.tokens) : Tagged(pdoc.tokens[i])
  /\ (\E i \in 1..Len(pdoc.tokens) : ~Tagged(pdoc.tokens[i])) =>
       ~HasRun("morphologizer")
  /\ Bound("doc") =>
       /\ HasRun("morphologizer")
       /\ \A i \in 1..Len(ns["doc"].tokens) : Tagged(ns["doc"].tokens[i])

C10_Witness ==
  /\ Bound("doc")
  /\ HasRun("morphologizer")
  /\ Len(ns["doc"].tokens) = 17
  /\ \A i \in 1..Len(ns["doc"].tokens) : Tagged(ns["doc"].tokens[i])

\* The texts cell 5 has printed, one per line, as items with a text.
PrintedTexts == [k \in 1..Len(CellLines(5)) |-> [text |-> CellLines(5)[k].data[1]]]

(* C11: the token sequence preserves the original text: the texts of the   *)
(* tokens of the Doc, joined in document order, are exactly the input      *)
(* sentence; tokenization loses, adds and reorders no character.  The same *)
(* holds of the texts cell 5 prints, once its loop has ended.              *)
C11_TokensPreserveText ==
  /\ ran # <<>> =>
       JoinText(pdoc.tokens, 1, Len(pdoc.tokens)) = ns["sentence"]
  /\ Bound("doc") =>
       /\ JoinText(ns["doc"].tokens, 1, Len(ns["doc"].tokens)) = ns["sentence"]
       /\ ns["doc"].text = ns["sentence"]
       /\ CellOf(pc) > 5 =>
            JoinText(PrintedTexts, 1, Len(PrintedTexts)) = ns["sentence"]

C11_Witness ==
  /\ CellOf(pc) > 5
  /\ Bound("doc")
  /\ Len(PrintedTexts) = 17
  /\ Len(JoinText(PrintedTexts, 1, Len(PrintedTexts))) = 28

(* C12: iterating the Doc is repeatable: each of the four token loops     *)
(* yields the same tokens in the same order with the same field values:    *)
(* every loop that has ended has printed as many rows as the first one,    *)
(* the text and the entity tag printed by the first loop equal, row by     *)
(* row, those printed by the last loop, and the text, POS, tag and         *)
(* dependency label printed by the first loop equal those of the table.    *)
C12_IterationRepeatable ==
  Bound("doc") =>
    LET first == TokenRows(3)
    IN  /\ \A c \in TokenCells :
             CellOf(pc) > c => Len(TokenRows(c)) = Len(first)
        /\ \A k \in 1..Len(TokenRows(5)) :
             /\ k <= Len(first)
             /\ TokenRows(5)[k].data[1] = first[k].data[1]
        /\ \A k \in 1..Len(TokenRows(7)) :
             /\ k <= Len(first)
             /\ TokenRows(7)[k].data[1] = first[k].data[1]
             /\ TokenRows(7)[k].data[3] = first[k].data[4]
             /\ TokenRows(7)[k].data[4] = first[k].data[3]
             /\ TokenRows(7)[k].data[5] = first[k].data[5]
        /\ \A k \in 1..Len(TokenRows(13)) :
             /\ k <= Len(first)
             /\ TokenRows(13)[k].data[1] = first[k].data[1]
             /\ TokenRows(13)[k].data[2] = first[k].data[2]

C12_Witness ==
  /\ pc = "done"
  /\ Len(TokenRows(3)) = 17
  /\ Len(TokenRows(13)) = 17
  /\ TokenRows(13)[6].data[2] = "B-GPE"
  /\ TokenRows(3)[6].data[2] = "B-GPE"
  /\ TokenRows(7)[6].data[3] = "PROPN"

\* The entity tags of the tokens toks are well formed.
WellFormedTags(toks) ==
  \A i \in 1..Len(toks) :
    /\ toks[i].ent_iob_ \in {"B", "I", "O"}
    /\ toks[i].ent_iob_ = "O" => toks[i].ent_type_ = ""
    /\ toks[i].ent_iob_ \in {"B", "I"} => toks[i].ent_type_ # ""
    /\ toks[i].ent_iob_ = "I" =>
         /\ i > 1
         /\ toks[i - 1].ent_iob_ \in {"B", "I"}
         /\ toks[i - 1].ent_type_ = toks[i].ent_type_

(* C13: the per-token entity tags of the Doc are well formed: a token      *)
(* tagged O has an empty entity type, a token tagged B or I has a          *)
(* non-empty one, and every token tagged I comes right after a token       *)
(* tagged B or I of the same entity type, so the first token is never      *)
(* tagged I.                                                               *)
C13_TagsWellFormed ==
  /\ HasRun("ner") => WellFormedTags(pdoc.tokens)
  /\ Bound("doc") =>
       /\ HasRun("ner")
       /\ WellFormedTags(ns["doc"].tokens)
       /\ ns["doc"].tokens[1].ent_iob_ # "I"

C13_Witness ==
  /\ Bound("doc")
  /\ ns["doc"].tokens[1].ent_iob_ = "B"
  /\ ns["doc"].tokens[2].ent_iob_ = "I"
  /\ ns["doc"].tokens[5].ent_iob_ = "O"
  /\ ns["doc"].tokens[5].ent_type_ = ""
  /\ Len(CellLines(13)) = 17

=============================================================================
